---------------------------- MODULE Spec2Model ----------------------------
(***************************************************************************)
(* A model of the sol-dex-pools pipeline (src/src/main.rs) and of the      *)
(* scoring library (src/src/pool_analysis.rs).                             *)
(*                                                                         *)
(* Numbers.  The program computes in f64.  The model computes in fixed     *)
(* point, with one unit per kind of quantity:                              *)
(*   - USD amounts (tvl, liquidity, volume) are integers of cents;         *)
(*   - ratios (prices, fees, score components, scores, logarithms) are     *)
(*     integers of millionths (Scale = 1.0);                               *)
(*   - token reserves are whole tokens;                                    *)
(*   - the Orca on-chain liquidity (u128) is counted in units of 10^9.     *)
(* Divisions round down.  NaN is a value of its own (see IsNaN).           *)
(***************************************************************************)
EXTENDS Integers, Sequences, FiniteSets, TLC

VARIABLES
    pc,         \* per source task: where the task of tokio::join! stands
    response,   \* per source: what its fetch resolved to
    idx,        \* per source: the position of its `for` loop in the batch
    mutex,      \* the owner of Arc<Mutex<Vec<PoolAnalysis>>>, or Free
    results,    \* the shared Vec<PoolAnalysis>
    warnings,   \* the lines this call of get_pools_data wrote with eprintln!
    main_pc,    \* where get_pools_data / token_price_analysis stands
    ret,        \* what token_price_analysis returned
    std_pools,  \* pool_analysis.rs: the &[StandardizedPool] handed in
    config,     \* pool_analysis.rs: the HealthScoreConfig handed in
    health,     \* pool_analysis.rs: what the called function returned
    invocation, \* how many calls of token_price_analysis there have been
    order       \* history: the sources in the order in which their queries
                \* were issued, in which their fetches resolved Ok, and in
                \* which they took the lock

vars == <<pc, response, idx, mutex, results, warnings, main_pc, ret,
          std_pools, config, health, invocation, order>>

-----------------------------------------------------------------------------
(* Bounds of the model. *)

\* The most raw entries one source's response holds.
MaxBatch == 2

\* The most records a selector is handed in the selector specification.
MaxPools == 3

\* The most calls of token_price_analysis in a row.
MaxInvocations == 2

-----------------------------------------------------------------------------
(* f64 in fixed point. *)

\* 1.0 in millionths.
Scale == 1000 * 1000

\* f64::NAN: one value outside the numbers the model computes with.
NaN == -999999999

IsNaN(x) == x = NaN

\* const SOL_PRICE_USD: f64 = 161.0 (a plain factor: ratio * 161 is a ratio).
SOL_PRICE_USD == 161

\* The wrapped-SOL mint every normalizer compares against.
SOL_MINT == "So11111111111111111111111111111111111111112"

MinOf(a, b) == IF a < b THEN a ELSE b

MaxOf(a, b) == IF a > b THEN a ELSE b

\* 10^k for k >= 0.
RECURSIVE Pow10(_)
Pow10(k) == IF k = 0 THEN 1 ELSE 10 * Pow10(k - 1)

\* floor(log10 x) for an integer x >= 1.
RECURSIVE FloorLog10(_)
FloorLog10(x) == IF x < 10 THEN 0 ELSE 1 + FloorLog10(x \div 10)

\* log10 of 1..10 in millionths.
Log10Table == <<0, 301030, 477121, 602060, 698970, 778151, 845098, 903090,
                954243, 1000000>>

\* f64::log10 of a positive amount of `c` cents, as log10 of its USD value in
\* millionths: exact (to the table) on one significant digit, interpolated
\* linearly on the next three digits, and monotone.
Log10Usd(c) ==
    LET k    == FloorLog10(c)
        m    == IF k >= 3 THEN c \div Pow10(k - 3) ELSE c * Pow10(3 - k)
        lead == m \div 1000
        rest == m % 1000
    IN  (k - 2) * Scale + Log10Table[lead]
          + ((Log10Table[lead + 1] - Log10Table[lead]) * rest) \div 1000

\* x * w for a weight w given in hundredths (0.45 is 45).
Weighted(x, w) == (x * w) \div 100

-----------------------------------------------------------------------------
(* str::parse::<f64>.  A numeric string of a response is one of the strings *)
(* below; Decimal gives the number a string denotes as mantissa * 10^exp,   *)
(* and no entry for a string that is no number.                             *)

Decimal(s) ==
    CASE s = "0"        -> <<[m |-> 0, e |-> 0]>>
      [] s = "0.01"     -> <<[m |-> 1, e |-> -2]>>
      [] s = "0.06"     -> <<[m |-> 6, e |-> -2]>>
      [] s = "0.30"     -> <<[m |-> 30, e |-> -2]>>
      [] s = "6.0"      -> <<[m |-> 60, e |-> -1]>>
      [] s = "-1"       -> <<[m |-> -1, e |-> 0]>>
      [] s = "100"      -> <<[m |-> 100, e |-> 0]>>
      [] s = "1000"     -> <<[m |-> 1000, e |-> 0]>>
      [] s = "2000000"  -> <<[m |-> 2000000, e |-> 0]>>
      [] s = "8000000"  -> <<[m |-> 8000000, e |-> 0]>>
      [] s = "20000000" -> <<[m |-> 20000000, e |-> 0]>>
      [] OTHER          -> <<>>

\* parse::<f64>() of `s` in units of 10^-unit: <<v>> for Ok(v), <<>> for Err.
ParseF64(s, unit) ==
    LET d == Decimal(s)
    IN  IF d = <<>> THEN <<>>
        ELSE LET sh == d[1].e + unit
             IN  IF sh >= 0 THEN <<d[1].m * Pow10(sh)>>
                 ELSE <<d[1].m \div Pow10(-sh)>>

\* parse::<f64>() of a USD amount, in cents.
ParseCents(s) == ParseF64(s, 2)

\* parse::<f64>() of a ratio (a fee), in millionths.
ParseRatio(s) == ParseF64(s, 6)

\* parse::<f64>() of a token reserve, in whole tokens.
ParseTokens(s) == ParseF64(s, 0)

-----------------------------------------------------------------------------
(* The score components every process_*_pools function computes inline. *)

\* if fee < 5.0 { 1.0 - (fee / 5.0) } else { 0.0 }
NormalizedFee(fee) == IF fee < 5 * Scale THEN Scale - (fee \div 5) ELSE 0

\* if amount > 0.0 { (amount.log10() / 7.0).min(1.0) } else { 0.0 }
\* (volume_score and liquidity_score are this same expression).
LogScore(cents) ==
    IF cents > 0 THEN MinOf(Log10Usd(cents) \div 7, Scale) ELSE 0

\* A variant that leaves the volume out and gives its weight to liquidity.
Score3LiquidityOnly(volume_score, liquidity_score, normalized_fee) ==
    Weighted(liquidity_score, 90) + Weighted(normalized_fee, 10)

\* (volume_score * 0.45) + (liquidity_score * 0.45) + (normalized_fee * 0.1)
Score3(volume_score, liquidity_score, normalized_fee) ==
    Weighted(volume_score, 45) + Weighted(liquidity_score, 45)
      + Weighted(normalized_fee, 10)

\* Orca: (liquidity_score * 0.7) + (normalized_fee * 0.3)
Score2(liquidity_score, normalized_fee) ==
    Weighted(liquidity_score, 70) + Weighted(normalized_fee, 30)

\* struct PoolAnalysis; `name` is a display label and is not modelled.
\* volume_24h: Option<f64> is <<>> for None and <<v>> for Some(v).
PoolAnalysis(amm, pool_address, price_usd, liquidity_usd, fee_percentage, volume_24h, score) ==
    [amm |-> amm, pool_address |-> pool_address, price_usd |-> price_usd,
     liquidity_usd |-> liquidity_usd, fee_percentage |-> fee_percentage,
     volume_24h |-> volume_24h, score |-> score]

-----------------------------------------------------------------------------
(* process_raydium_pools: one iteration of `for pool in ...pools`. *)

\* A variant that leaves the price in SOL when SOL is the second token.
RaydiumPriceUsdSecondRaw(pool) ==
    IF pool.mint_a = SOL_MINT THEN pool.price * SOL_PRICE_USD ELSE pool.price

RaydiumPriceUsd(pool) ==
    IF pool.mint_a = SOL_MINT THEN pool.price * SOL_PRICE_USD
    ELSE IF pool.mint_b = SOL_MINT THEN pool.price * SOL_PRICE_USD
    ELSE pool.price

RaydiumNormalizedFee(pool) == NormalizedFee(pool.fee_rate)

RaydiumScore(pool) ==
    Score3(LogScore(pool.volume), LogScore(pool.tvl),
           RaydiumNormalizedFee(pool))

\* The records one Raydium pool appends: always exactly one.
NormalizeRaydium(pool) ==
    <<PoolAnalysis("Raydium", pool.id, RaydiumPriceUsd(pool), pool.tvl,
                   pool.fee_rate * 100, <<pool.volume>>, RaydiumScore(pool))>>

-----------------------------------------------------------------------------
(* process_orca_pools: one iteration of `for pool in orca_pools`. *)

OrcaPriceUsd(pool) == pool.price * SOL_PRICE_USD

\* pool.data.liquidity as f64 * 1.0e-9 * price_usd, in cents.
OrcaLiquidityUsd(pool) == pool.liquidity * (OrcaPriceUsd(pool) \div 10000)

\* pool.data.fee_rate as f64 / 10000.0
OrcaFeeRate(pool) == pool.fee_rate * 100

OrcaNormalizedFee(pool) == NormalizedFee(OrcaFeeRate(pool))

OrcaScore(pool) ==
    Score2(LogScore(OrcaLiquidityUsd(pool)), OrcaNormalizedFee(pool))

NormalizeOrca(pool) ==
    <<PoolAnalysis("Orca", pool.address, OrcaPriceUsd(pool),
                   OrcaLiquidityUsd(pool), OrcaFeeRate(pool) * 100, <<>>,
                   OrcaScore(pool))>>

-----------------------------------------------------------------------------
(* process_meteora_pools and calc_meteora_price. *)

\* pool.pool_token_amounts[0] / [1] index a Vec<String>: fewer than two
\* elements is an index-out-of-bounds panic.
MeteoraPanics(pool) == Len(pool.pool_token_amounts) < 2

\* A variant that divides the other way round when SOL is one of the tokens.
calc_meteora_price_inverted(pool) ==
    LET a0 == ParseTokens(pool.pool_token_amounts[1])
        a1 == ParseTokens(pool.pool_token_amounts[2])
    IN  IF a0 = <<>> \/ a1 = <<>> THEN <<>>
        ELSE IF pool.pool_token_mints[1] = SOL_MINT
             THEN IF a0[1] > 0 THEN <<(a1[1] * Scale) \div a0[1]>> ELSE <<>>
             ELSE IF pool.pool_token_mints[2] = SOL_MINT
             THEN IF a1[1] > 0 THEN <<(a0[1] * Scale) \div a1[1]>> ELSE <<>>
             ELSE IF a0[1] > 0 THEN <<(a1[1] * Scale) \div a0[1]>> ELSE <<>>

\* calc_meteora_price: <<p>> for Some(p), <<>> for None.
calc_meteora_price(pool) ==
    LET a0 == ParseTokens(pool.pool_token_amounts[1])
        a1 == ParseTokens(pool.pool_token_amounts[2])
    IN  IF a0 = <<>> \/ a1 = <<>> THEN <<>>
        ELSE LET token0_amount == a0[1]
                 token1_amount == a1[1]
             IN  IF pool.pool_token_mints[1] = SOL_MINT
                 THEN IF token1_amount > 0
                      THEN <<(token0_amount * Scale) \div token1_amount>>
                      ELSE <<>>
                 ELSE IF pool.pool_token_mints[2] = SOL_MINT
                 THEN IF token0_amount > 0
                      THEN <<(token1_amount * Scale) \div token0_amount>>
                      ELSE <<>>
                 ELSE IF token0_amount > 0
                      THEN <<(token1_amount * Scale) \div token0_amount>>
                      ELSE <<>>

\* pool.total_fee_pct.parse::<f64>().unwrap_or(0.0)
MeteoraFeePercentage(pool) ==
    LET f == ParseRatio(pool.total_fee_pct)
    IN  IF f = <<>> THEN 0 ELSE f[1]

MeteoraNormalizedFee(pool) == NormalizedFee(MeteoraFeePercentage(pool))

\* The records one Meteora pool appends (it does not panic): none when the
\* price or the TVL cannot be computed (`continue`), else one.
NormalizeMeteora(pool) ==
    LET sol_price == calc_meteora_price(pool)
        tvl       == ParseCents(pool.pool_tvl)
    IN  IF sol_price = <<>> THEN <<>>
        ELSE IF tvl = <<>> THEN <<>>
        ELSE <<PoolAnalysis("Meteora", pool.pool_address,
                   sol_price[1] * SOL_PRICE_USD, tvl[1],
                   MeteoraFeePercentage(pool), <<pool.trading_volume>>,
                   Score3(LogScore(pool.trading_volume), LogScore(tvl[1]),
                          MeteoraNormalizedFee(pool)))>>

-----------------------------------------------------------------------------
(* process_meteora_dlmm_pools: one iteration of `for pair in &group.pairs`. *)

\* pair.base_fee_percentage.parse::<f64>().unwrap_or(0.0)
DlmmBaseFeePercentage(pair) ==
    LET f == ParseRatio(pair.base_fee_percentage)
    IN  IF f = <<>> THEN 0 ELSE f[1]

DlmmNormalizedFee(pair) == NormalizedFee(DlmmBaseFeePercentage(pair))

DlmmPriceUsd(pair) ==
    IF pair.mint_y = SOL_MINT THEN pair.current_price * SOL_PRICE_USD
    ELSE IF pair.mint_x = SOL_MINT THEN pair.current_price * SOL_PRICE_USD
    ELSE pair.current_price

\* A variant that does not look at is_blacklisted.
DlmmSkipsHiddenOnly(pair) ==
    LET liq == ParseCents(pair.liquidity)
    IN  \/ pair.hide
        \/ liq = <<>>
        \/ ~(liq[1] > 0)

\* `continue` on hide / is_blacklisted, and on a liquidity that does not
\* parse or is not > 0.0.
DlmmSkips(pair) ==
    LET liq == ParseCents(pair.liquidity)
    IN  \/ pair.hide
        \/ pair.is_blacklisted
        \/ liq = <<>>
        \/ ~(liq[1] > 0)

NormalizeDlmm(pair) ==
    IF DlmmSkips(pair) THEN <<>>
    ELSE LET liquidity_usd == ParseCents(pair.liquidity)[1]
         IN  <<PoolAnalysis("Meteora DLMM", pair.address, DlmmPriceUsd(pair),
                   liquidity_usd, DlmmBaseFeePercentage(pair) * 100,
                   <<pair.trade_volume_24h>>,
                   Score3(LogScore(pair.trade_volume_24h),
                          LogScore(liquidity_usd), DlmmNormalizedFee(pair)))>>

-----------------------------------------------------------------------------
(* The pipeline: get_pools_data and token_price_analysis.                   *)
(* RPC_URL is taken to be set (its `expect` does not fire).                 *)

Sources == {"Raydium", "Orca", "Meteora", "Meteora DLMM"}

Free == "free"

JUP_MINT == "JUPyiwrYJFskUPiHa7hkeR8VUtAeFoSYbKedZNsDvCN"

USDC_MINT == "EPjFWdd5AufqSSqeM2qN1xzybapC8G4wEGGkZwyTDt1v"

\* The sequences without repetition of at most n elements of S: a response
\* lists a pool once.
RECURSIVE InjSeqs(_, _)
InjSeqs(S, n) ==
    IF n = 0 THEN {<<>>}
    ELSE LET shorter == InjSeqs(S, n - 1)
         IN  shorter \cup
             {Append(q, x) : <<q, x>> \in
                 {y \in shorter \X S :
                     \A i \in 1..Len(y[1]) : y[1][i] # y[2]}}

\* group.pairs of every group, in order.
RECURSIVE Flatten(_)
Flatten(groups) ==
    IF groups = <<>> THEN <<>> ELSE Head(groups) \o Flatten(Tail(groups))

\* The raw entries the `for` loop(s) of process_*_pools visit, in order.
Entries(r) == IF "groups" \in DOMAIN r THEN Flatten(r.groups) ELSE r.entries

\* The provider-scoped id of a raw entry (pool.id, pool.address,
\* pool.pool_address, pair.address).
EntryId(s, e) ==
    CASE s = "Raydium"      -> e.id
      [] s = "Orca"         -> e.address
      [] s = "Meteora"      -> e.pool_address
      [] s = "Meteora DLMM" -> e.address

\* The records one raw entry of source s appends to the aggregate.
Normalize(s, e) ==
    CASE s = "Raydium"      -> NormalizeRaydium(e)
      [] s = "Orca"         -> NormalizeOrca(e)
      [] s = "Meteora"      -> NormalizeMeteora(e)
      [] s = "Meteora DLMM" -> NormalizeDlmm(e)

\* Whether the iteration over raw entry e of source s panics.
Panics(s, e) == s = "Meteora" /\ MeteoraPanics(e)

\* The early `return` of process_*_pools, taken before the lock.
ReturnsEarly(s, r) ==
    CASE s = "Raydium"      -> ~r.success \/ r.entries = <<>>
      [] s = "Orca"         -> r.entries = <<>>
      [] s = "Meteora"      -> r.entries = <<>>
      [] s = "Meteora DLMM" -> r.groups = <<>>

\* Sample pools of the pipeline specification.
RaydiumCatalog ==
    {[id |-> "R1", mint_a |-> JUP_MINT, mint_b |-> SOL_MINT, price |-> 50000,
      fee_rate |-> 3000, tvl |-> 200000000, volume |-> 100000000],
     [id |-> "R2", mint_a |-> JUP_MINT, mint_b |-> SOL_MINT, price |-> 50000,
      fee_rate |-> 3000, tvl |-> 800000000, volume |-> 0]}

OrcaCatalog ==
    {[address |-> "O1", price |-> 50000, liquidity |-> 50000,
      fee_rate |-> 3000]}

MeteoraCatalog ==
    {[pool_address |-> "M1", pool_token_mints |-> <<JUP_MINT, SOL_MINT>>,
      pool_token_amounts |-> <<"1000", "100">>, pool_tvl |-> "2000000",
      total_fee_pct |-> "0.30", trading_volume |-> 100000000],
     [pool_address |-> "M2", pool_token_mints |-> <<JUP_MINT, SOL_MINT>>,
      pool_token_amounts |-> <<"1000", "100">>, pool_tvl |-> "abc",
      total_fee_pct |-> "0.30", trading_volume |-> 100000000],
     [pool_address |-> "M3", pool_token_mints |-> <<JUP_MINT, SOL_MINT>>,
      pool_token_amounts |-> <<"1000">>, pool_tvl |-> "2000000",
      total_fee_pct |-> "0.30", trading_volume |-> 100000000]}

DlmmCatalog ==
    {[address |-> "D1", mint_x |-> JUP_MINT, mint_y |-> SOL_MINT,
      liquidity |-> "2000000", base_fee_percentage |-> "0.30",
      trade_volume_24h |-> 100000000, current_price |-> 50000,
      hide |-> FALSE, is_blacklisted |-> FALSE],
     [address |-> "D2", mint_x |-> JUP_MINT, mint_y |-> SOL_MINT,
      liquidity |-> "8000000", base_fee_percentage |-> "0.30",
      trade_volume_24h |-> 100000000, current_price |-> 50000,
      hide |-> TRUE, is_blacklisted |-> FALSE]}

\* Ok(Ok(data)) of each fetch: what timeout(..).await may hand to process_*.
OkResponsesBySource ==
    [s \in Sources |->
        CASE s = "Raydium" ->
               {[kind |-> "ok", success |-> b, entries |-> e] :
                   b \in BOOLEAN, e \in InjSeqs(RaydiumCatalog, MaxBatch)}
          [] s = "Orca" ->
               {[kind |-> "ok", entries |-> e] : e \in InjSeqs(OrcaCatalog, MaxBatch)}
          [] s = "Meteora" ->
               {[kind |-> "ok", entries |-> e] :
                   e \in InjSeqs(MeteoraCatalog, MaxBatch)}
          [] s = "Meteora DLMM" ->
               {[kind |-> "ok", groups |-> <<>>]} \cup
               {[kind |-> "ok", groups |-> <<e>>] :
                   e \in InjSeqs(DlmmCatalog, MaxBatch)} \cup
               UNION {{[kind |-> "ok",
                        groups |-> <<SubSeq(e, 1, k), SubSeq(e, k + 1, Len(e))>>] :
                          k \in 1..(Len(e) - 1)} :
                            e \in InjSeqs(DlmmCatalog, MaxBatch)}]

OkResponses(s) == OkResponsesBySource[s]

Pending == [kind |-> "pending"]

NoReturn == [kind |-> "none", pool |-> <<>>]

\* main.rs find_healthiest_pool: Iterator::max_by keeps the accumulated
\* element only when the comparison says Greater, so the last of several
\* equal maxima wins; partial_cmp(..).unwrap_or(Equal) makes a NaN equal to
\* everything.
PartialCmpOrEqual(a, b) ==
    IF IsNaN(a) \/ IsNaN(b) THEN "Equal"
    ELSE IF a < b THEN "Less"
    ELSE IF a > b THEN "Greater"
    ELSE "Equal"

\* A variant that keeps the first of several equal maxima.
RECURSIVE MaxByScoreFirst(_, _)
MaxByScoreFirst(acc, rest) ==
    IF rest = <<>> THEN acc
    ELSE MaxByScoreFirst(IF PartialCmpOrEqual(acc.score, Head(rest).score) = "Less"
                         THEN Head(rest) ELSE acc,
                         Tail(rest))

RECURSIVE MaxByScore(_, _)
MaxByScore(acc, rest) ==
    IF rest = <<>> THEN acc
    ELSE MaxByScore(IF PartialCmpOrEqual(acc.score, Head(rest).score) = "Greater"
                    THEN acc ELSE Head(rest),
                    Tail(rest))

\* A variant that returns the last record whatever the scores.
find_healthiest_pool_last(pools) ==
    IF pools = <<>> THEN <<>> ELSE <<pools[Len(pools)]>>

\* <<p>> for Some(p), <<>> for None.
find_healthiest_pool(pools) ==
    IF pools = <<>> THEN <<>> ELSE <<MaxByScore(Head(pools), Tail(pools))>>

\* A variant that also fails on an aggregate of a single record.
token_price_analysis_off_by_one(all_pools) ==
    IF Len(all_pools) <= 1 THEN [kind |-> "Err", pool |-> <<>>]
    ELSE [kind |-> "Ok", pool |-> find_healthiest_pool(all_pools)]

\* token_price_analysis, given what get_pools_data returned.
token_price_analysis(all_pools) ==
    IF all_pools = <<>> THEN [kind |-> "Err", pool |-> <<>>]
    ELSE LET best == find_healthiest_pool(all_pools)
         IN  IF best # <<>> THEN [kind |-> "Ok", pool |-> best]
             ELSE [kind |-> "Err", pool |-> <<>>]

\* The Err(String) a task of join! resolved to, as the warning line names it.
Warning(s, r) == [source |-> s, reason |-> r.kind]

PipelineInit ==
    /\ pc = [s \in Sources |-> "fetching"]
    /\ response = [s \in Sources |-> Pending]
    /\ idx = [s \in Sources |-> 0]
    /\ mutex = Free
    /\ results = <<>>
    /\ warnings = {}
    /\ main_pc = "joining"
    /\ ret = NoReturn

LibraryIdle ==
    /\ std_pools = <<>>
    /\ config = <<>>
    /\ health = <<>>

\* The order in which join! is handed the four fetches, each issuing its
\* one HTTP query.
LaunchOrder == <<"Raydium", "Orca", "Meteora", "Meteora DLMM">>

\* The four queries are issued, no fetch has resolved and no source has taken
\* the lock.
OrderAtLaunch == [launched |-> LaunchOrder, resolved |-> <<>>, locked |-> <<>>]

Init == PipelineInit /\ LibraryIdle /\ invocation = 1 /\ order = OrderAtLaunch

\* timeout(REQUEST_TIMEOUT, fetch).await resolved Ok(Ok(data)).
FetchOk(s) ==
    /\ main_pc = "joining"
    /\ pc[s] = "fetching"
    /\ \E r \in OkResponses(s) : response' = [response EXCEPT ![s] = r]
    /\ pc' = [pc EXCEPT ![s] = "fetched"]
    /\ UNCHANGED <<invocation, order, idx, mutex, results, warnings, main_pc, ret, std_pools,
                   config, health>>

\* A variant in which a fetch error is propagated out of the pipeline.
FetchErrAborts(s) ==
    /\ main_pc = "joining"
    /\ pc[s] = "fetching"
    /\ response' = [response EXCEPT ![s] = [kind |-> "error"]]
    /\ pc' = [pc EXCEPT ![s] = "done"]
    /\ main_pc' = "returned"
    /\ ret' = [kind |-> "Err", pool |-> <<>>]
    /\ UNCHANGED <<invocation, order, idx, mutex, results, warnings, std_pools, config, health>>

\* A variant in which a failed query is issued again.
FetchErrRetries(s) ==
    /\ main_pc = "joining"
    /\ pc[s] = "fetching"
    /\ order' = [order EXCEPT !.launched = Append(@, s)]
    /\ UNCHANGED <<invocation, pc, response, idx, mutex, results, warnings, main_pc, ret,
                   std_pools, config, health>>

\* ... resolved Ok(Err(e)): the task ends with Err("<source> error: ..").
FetchErr(s) ==
    /\ main_pc = "joining"
    /\ pc[s] = "fetching"
    /\ response' = [response EXCEPT ![s] = [kind |-> "error"]]
    /\ pc' = [pc EXCEPT ![s] = "done"]
    /\ UNCHANGED <<invocation, order, idx, mutex, results, warnings, main_pc, ret, std_pools,
                   config, health>>

\* A variant in which a timeout is propagated out of the pipeline as an error.
FetchTimeoutAborts(s) ==
    /\ main_pc = "joining"
    /\ pc[s] = "fetching"
    /\ response' = [response EXCEPT ![s] = [kind |-> "timeout"]]
    /\ pc' = [pc EXCEPT ![s] = "done"]
    /\ main_pc' = "returned"
    /\ ret' = [kind |-> "Err", pool |-> <<>>]
    /\ UNCHANGED <<invocation, order, idx, mutex, results, warnings, std_pools, config, health>>

\* ... resolved Err(Elapsed): the task ends with Err(".. request timed out").
FetchTimeout(s) ==
    /\ main_pc = "joining"
    /\ pc[s] = "fetching"
    /\ response' = [response EXCEPT ![s] = [kind |-> "timeout"]]
    /\ pc' = [pc EXCEPT ![s] = "done"]
    /\ UNCHANGED <<invocation, order, idx, mutex, results, warnings, main_pc, ret, std_pools,
                   config, health>>

\* process_*_pools returns before taking the lock.
EarlyReturn(s) ==
    /\ main_pc = "joining"
    /\ pc[s] = "fetched"
    /\ ReturnsEarly(s, response[s])
    /\ pc' = [pc EXCEPT ![s] = "done"]
    /\ UNCHANGED <<invocation, order, response, idx, mutex, results, warnings, main_pc, ret,
                   std_pools, config, health>>

\* A variant that takes the lock whether or not it is free.
LockWithoutWaiting(s) ==
    /\ main_pc = "joining"
    /\ pc[s] = "fetched"
    /\ ~ReturnsEarly(s, response[s])
    /\ mutex' = s
    /\ idx' = [idx EXCEPT ![s] = 1]
    /\ pc' = [pc EXCEPT ![s] = "locked"]
    /\ UNCHANGED <<invocation, order, response, results, warnings, main_pc, ret,
                   std_pools, config, health>>

\* let mut pools_lock = results.lock().await;
Lock(s) ==
    /\ main_pc = "joining"
    /\ pc[s] = "fetched"
    /\ ~ReturnsEarly(s, response[s])
    /\ mutex = Free
    /\ mutex' = s
    /\ idx' = [idx EXCEPT ![s] = 1]
    /\ pc' = [pc EXCEPT ![s] = "locked"]
    /\ UNCHANGED <<invocation, order, response, results, warnings, main_pc, ret, std_pools,
                   config, health>>

\* A variant that puts the record at the front of the aggregate.
LoopStepPrepends(s) ==
    /\ main_pc = "joining"
    /\ pc[s] = "locked"
    /\ idx[s] <= Len(Entries(response[s]))
    /\ LET e == Entries(response[s])[idx[s]]
       IN  IF Panics(s, e)
           THEN /\ main_pc' = "panicked"
                /\ UNCHANGED <<results, idx>>
           ELSE /\ results' = Normalize(s, e) \o results
                /\ idx' = [idx EXCEPT ![s] = idx[s] + 1]
                /\ UNCHANGED main_pc
    /\ UNCHANGED <<invocation, order, pc, response, mutex, warnings, ret,
                   std_pools, config, health>>

\* A variant that takes the lock for one record at a time and releases it
\* after the append.
LoopStepLocksPerRecord(s) ==
    /\ main_pc = "joining"
    /\ pc[s] = "locked"
    /\ mutex \in {Free, s}
    /\ idx[s] <= Len(Entries(response[s]))
    /\ LET e == Entries(response[s])[idx[s]]
       IN  IF Panics(s, e)
           THEN /\ main_pc' = "panicked"
                /\ UNCHANGED <<results, idx, mutex>>
           ELSE /\ results' = results \o Normalize(s, e)
                /\ idx' = [idx EXCEPT ![s] = idx[s] + 1]
                /\ mutex' = Free
                /\ UNCHANGED main_pc
    /\ UNCHANGED <<invocation, order, pc, response, warnings, ret,
                   std_pools, config, health>>

\* One iteration of the loop over the raw entries, the lock held: the entry
\* appends its record, is skipped, or panics (and join! unwinds with it).
LoopStep(s) ==
    /\ main_pc = "joining"
    /\ pc[s] = "locked"
    /\ idx[s] <= Len(Entries(response[s]))
    /\ LET e == Entries(response[s])[idx[s]]
       IN  IF Panics(s, e)
           THEN /\ main_pc' = "panicked"
                /\ UNCHANGED <<results, idx>>
           ELSE /\ results' = results \o Normalize(s, e)
                /\ idx' = [idx EXCEPT ![s] = idx[s] + 1]
                /\ UNCHANGED main_pc
    /\ UNCHANGED <<invocation, order, pc, response, mutex, warnings, ret, std_pools, config,
                   health>>

\* The loop is over: process_*_pools returns, dropping the MutexGuard.
Unlock(s) ==
    /\ main_pc = "joining"
    /\ pc[s] = "locked"
    /\ idx[s] > Len(Entries(response[s]))
    /\ mutex' = Free
    /\ pc' = [pc EXCEPT ![s] = "done"]
    /\ UNCHANGED <<invocation, order, response, idx, results, warnings, main_pc, ret, std_pools,
                   config, health>>

\* A variant in which the join returns as soon as one task has ended.
LogWarningsEarly ==
    /\ main_pc = "joining"
    /\ \E s \in Sources : pc[s] = "done"
    /\ mutex = Free
    /\ warnings' = {Warning(s, response[s]) :
                      s \in {x \in Sources :
                               response[x].kind \in {"error", "timeout"}}}
    /\ main_pc' = "logged"
    /\ UNCHANGED <<invocation, order, pc, response, idx, mutex, results, ret,
                   std_pools, config, health>>

\* join! has all four results: one eprintln! per task that ended with Err.
LogWarnings ==
    /\ main_pc = "joining"
    /\ \A s \in Sources : pc[s] = "done"
    /\ warnings' = {Warning(s, response[s]) :
                      s \in {x \in Sources :
                               response[x].kind \in {"error", "timeout"}}}
    /\ main_pc' = "logged"
    /\ UNCHANGED <<invocation, order, pc, response, idx, mutex, results, ret, std_pools, config,
                   health>>

\* results.lock().await, Ok(pool_results.clone()), and token_price_analysis
\* on the clone.
Analyze ==
    /\ main_pc = "logged"
    /\ mutex = Free
    /\ ret' = token_price_analysis(results)
    /\ main_pc' = "returned"
    /\ UNCHANGED <<invocation, order, pc, response, idx, mutex, results, warnings, std_pools,
                   config, health>>

Next ==
    \/ \E s \in Sources :
          \/ FetchOk(s)
          \/ FetchErr(s)
          \/ FetchTimeout(s)
          \/ EarlyReturn(s)
          \/ Lock(s)
          \/ LoopStep(s)
          \/ Unlock(s)
    \/ LogWarnings
    \/ Analyze

Spec == Init /\ [][Next]_vars

-----------------------------------------------------------------------------
(* The pipeline with its history: in which order the fetches resolved Ok    *)
(* and in which order the sources took the lock.                            *)

\* What a fetch may resolve Ok with here: the source's whole catalog of
\* pools that normalize without a panic, or an empty batch.
OrderResponses(s) ==
    CASE s = "Raydium" ->
           {[kind |-> "ok", success |-> TRUE, entries |-> e] :
               e \in {<<>>, <<CHOOSE x \in RaydiumCatalog : x.id = "R1",
                              CHOOSE x \in RaydiumCatalog : x.id = "R2">>}}
      [] s = "Orca" ->
           {[kind |-> "ok", entries |-> e] :
               e \in {<<>>, <<CHOOSE x \in OrcaCatalog : TRUE>>}}
      [] s = "Meteora" ->
           {[kind |-> "ok", entries |-> e] :
               e \in {<<>>,
                      <<CHOOSE x \in MeteoraCatalog : x.pool_address = "M2",
                        CHOOSE x \in MeteoraCatalog : x.pool_address = "M1">>}}
      [] s = "Meteora DLMM" ->
           {[kind |-> "ok", groups |-> g] :
               g \in {<<>>,
                      <<<<CHOOSE x \in DlmmCatalog : x.address = "D1">>,
                        <<CHOOSE x \in DlmmCatalog : x.address = "D2">>>>}}

\* FetchOk, the resolution entered in the history.
FetchOkRecorded(s) ==
    /\ main_pc = "joining"
    /\ pc[s] = "fetching"
    /\ \E r \in OrderResponses(s) : response' = [response EXCEPT ![s] = r]
    /\ pc' = [pc EXCEPT ![s] = "fetched"]
    /\ order' = [order EXCEPT !.resolved = Append(@, s)]
    /\ UNCHANGED <<invocation, idx, mutex, results, warnings, main_pc, ret,
                   std_pools, config, health>>

\* Lock, the acquisition entered in the history.
LockRecorded(s) ==
    /\ main_pc = "joining"
    /\ pc[s] = "fetched"
    /\ ~ReturnsEarly(s, response[s])
    /\ mutex = Free
    /\ mutex' = s
    /\ idx' = [idx EXCEPT ![s] = 1]
    /\ pc' = [pc EXCEPT ![s] = "locked"]
    /\ order' = [order EXCEPT !.locked = Append(@, s)]
    /\ UNCHANGED <<invocation, response, results, warnings, main_pc, ret,
                   std_pools, config, health>>

NextOrder ==
    \/ \E s \in Sources :
          \/ FetchOkRecorded(s)
          \/ FetchErr(s)
          \/ FetchTimeout(s)
          \/ EarlyReturn(s)
          \/ LockRecorded(s)
          \/ LoopStep(s)
          \/ Unlock(s)
    \/ LogWarnings
    \/ Analyze

SpecOrder == Init /\ [][NextOrder]_vars

-----------------------------------------------------------------------------
(* The pipeline under the scheduling the runtime gives it.                  *)

\* What a fetch may resolve Ok with here: one pool for Raydium, no pool for
\* Orca, one pair for Meteora DLMM and, for Meteora, one pool, or one pool
\* followed by a pool that reports one token amount only.
LiveResponses(s) ==
    CASE s = "Raydium" ->
           {[kind |-> "ok", success |-> TRUE,
             entries |-> <<CHOOSE x \in RaydiumCatalog : x.id = "R1">>]}
      [] s = "Orca" ->
           {[kind |-> "ok", entries |-> <<>>]}
      [] s = "Meteora" ->
           {[kind |-> "ok", entries |-> e] :
               e \in {<<CHOOSE x \in MeteoraCatalog : x.pool_address = "M1">>,
                      <<CHOOSE x \in MeteoraCatalog : x.pool_address = "M1",
                        CHOOSE x \in MeteoraCatalog : x.pool_address = "M3">>}}
      [] s = "Meteora DLMM" ->
           {[kind |-> "ok",
             groups |-> <<<<CHOOSE x \in DlmmCatalog : x.address = "D1">>>>]}

\* FetchOk on these responses.
FetchOkLive(s) ==
    /\ main_pc = "joining"
    /\ pc[s] = "fetching"
    /\ \E r \in LiveResponses(s) : response' = [response EXCEPT ![s] = r]
    /\ pc' = [pc EXCEPT ![s] = "fetched"]
    /\ UNCHANGED <<invocation, order, idx, mutex, results, warnings, main_pc, ret,
                   std_pools, config, health>>

\* The steps of the task of source s other than taking the lock.
Task(s) ==
    \/ FetchOkLive(s)
    \/ FetchErr(s)
    \/ FetchTimeout(s)
    \/ EarlyReturn(s)
    \/ LoopStep(s)
    \/ Unlock(s)

NextLive ==
    \/ \E s \in Sources : Task(s) \/ Lock(s)
    \/ LogWarnings
    \/ Analyze

\* Every fetch resolves: the source call completes or its timeout fires. The
\* task of join! is polled as long as one of its futures can proceed, so a
\* handler that can return early, iterate or release the lock does so. The
\* mutex hands the lock to its waiters first come, first served, so a source
\* that waits for it gets it: strong fairness. Once all four have resolved,
\* get_pools_data logs, takes the lock and returns.
Fairness ==
    /\ \A s \in Sources : WF_vars(Task(s)) /\ SF_vars(Lock(s))
    /\ WF_vars(LogWarnings)
    /\ WF_vars(Analyze)

SpecLive == Init /\ [][NextLive]_vars /\ Fairness

-----------------------------------------------------------------------------
(* A sequence of calls of token_price_analysis in one process. *)

\* A variant in which the results vector outlives the call (as a static
\* would).
InvokeKeepsAggregate ==
    /\ main_pc = "returned"
    /\ invocation < MaxInvocations
    /\ invocation' = invocation + 1
    /\ pc' = [s \in Sources |-> "fetching"]
    /\ response' = [s \in Sources |-> Pending]
    /\ idx' = [s \in Sources |-> 0]
    /\ mutex' = Free
    /\ warnings' = {}
    /\ main_pc' = "joining"
    /\ ret' = NoReturn
    /\ order' = OrderAtLaunch
    /\ UNCHANGED <<results, std_pools, config, health>>

\* The next call, after the previous one returned: get_pools_data makes a
\* new, empty results vector and four new tasks; nothing else is carried
\* over.
Invoke ==
    /\ main_pc = "returned"
    /\ invocation < MaxInvocations
    /\ invocation' = invocation + 1
    /\ pc' = [s \in Sources |-> "fetching"]
    /\ response' = [s \in Sources |-> Pending]
    /\ idx' = [s \in Sources |-> 0]
    /\ mutex' = Free
    /\ results' = <<>>
    /\ warnings' = {}
    /\ main_pc' = "joining"
    /\ ret' = NoReturn
    /\ order' = OrderAtLaunch
    /\ UNCHANGED <<std_pools, config, health>>

NextSeq == Next \/ Invoke

SpecSeq == Init /\ [][NextSeq]_vars

-----------------------------------------------------------------------------
(* pool_analysis.rs: StandardizedPool, HealthScoreConfig,                   *)
(* calculate_health_score and find_healthiest_pool.  A pool's numbers may   *)
(* be NaN here; infinities are not modelled.                                *)

\* a > b on f64: false when either side is NaN.
FGt(a, b) == ~IsNaN(a) /\ ~IsNaN(b) /\ a > b

\* f64::min / f64::max: when one argument is NaN the other is returned.
FMin(a, b) == IF IsNaN(a) THEN b ELSE IF IsNaN(b) THEN a ELSE MinOf(a, b)

FMax(a, b) == IF IsNaN(a) THEN b ELSE IF IsNaN(b) THEN a ELSE MaxOf(a, b)

\* a / b of two ratios, to five decimals; NaN when either is NaN.
FDiv(a, b) ==
    IF IsNaN(a) \/ IsNaN(b) THEN NaN
    ELSE (((a \div 1000) * 100000) \div (b \div 1000)) * 10

\* a - b and a + b; NaN when either is NaN.
FSub(a, b) == IF IsNaN(a) \/ IsNaN(b) THEN NaN ELSE a - b

FAdd(a, b) == IF IsNaN(a) \/ IsNaN(b) THEN NaN ELSE a + b

\* x * w for a weight in hundredths; NaN when x is NaN.
FWeighted(x, w) == IF IsNaN(x) THEN NaN ELSE Weighted(x, w)

\* impl Default for HealthScoreConfig (weights in hundredths, ceilings in
\* cents, the fee ceiling in millionths).
DefaultConfig ==
    [liquidity_weight |-> 50, volume_weight |-> 30, fee_weight |-> 10,
     stability_weight |-> 10, max_expected_liquidity |-> 1000000000,
     max_expected_volume |-> 500000000, max_expected_fee |-> Scale]

\* if amount > 0.0 { (amount.log10() / max.log10()).min(1.0).max(0.0) }
\* else { 0.0 }
ClampedLogScore(cents, max_cents) ==
    IF FGt(cents, 0)
    THEN FMax(FMin(FDiv(Log10Usd(cents), Log10Usd(max_cents)), Scale), 0)
    ELSE 0

\* (1.0 - (pool.fee_percentage / config.max_expected_fee)).max(0.0)
FeeScore(fee_percentage, max_expected_fee) ==
    FMax(FSub(Scale, FDiv(fee_percentage, max_expected_fee)), 0)

calculate_health_score(pool, cfg) ==
    LET liquidity_score ==
            ClampedLogScore(pool.liquidity_usd, cfg.max_expected_liquidity)
        volume_score ==
            IF pool.volume_24h = <<>> THEN 0
            ELSE ClampedLogScore(pool.volume_24h[1], cfg.max_expected_volume)
        fee_score == FeeScore(pool.fee_percentage, cfg.max_expected_fee)
    IN  [pool |-> pool,
         health_score |->
             FAdd(FAdd(FWeighted(liquidity_score, cfg.liquidity_weight),
                       FWeighted(volume_score, cfg.volume_weight)),
                  FWeighted(fee_score, cfg.fee_weight)),
         liquidity_score |-> liquidity_score,
         volume_score |-> volume_score,
         fee_score |-> fee_score]

\* The comparison find_healthiest_pool of pool_analysis.rs hands to max_by.
NanAwareCmp(a, b) ==
    IF IsNaN(a) /\ IsNaN(b) THEN "Equal"
    ELSE IF IsNaN(a) THEN "Less"
    ELSE IF IsNaN(b) THEN "Greater"
    ELSE PartialCmpOrEqual(a, b)

RECURSIVE MaxByHealth(_, _)
MaxByHealth(acc, rest) ==
    IF rest = <<>> THEN acc
    ELSE MaxByHealth(IF NanAwareCmp(acc.health_score, Head(rest).health_score)
                          = "Greater"
                     THEN acc ELSE Head(rest),
                     Tail(rest))

\* pools.iter().map(|pool| calculate_health_score(pool, &config))
ScoreAll(pools) ==
    [i \in 1..Len(pools) |-> calculate_health_score(pools[i], DefaultConfig)]

\* pool_analysis.rs find_healthiest_pool: <<a>> for Some(a), <<>> for None.
lib_find_healthiest_pool(pools) ==
    IF pools = <<>> THEN <<>>
    ELSE LET scored == ScoreAll(pools)
         IN  <<MaxByHealth(Head(scored), Tail(scored))>>

-----------------------------------------------------------------------------
(* The normalizers and the scorer as functions: each action applies one of *)
(* them to one input drawn from the sets below.                             *)

MintPairs == {<<SOL_MINT, JUP_MINT>>, <<JUP_MINT, SOL_MINT>>,
              <<JUP_MINT, USDC_MINT>>}

RaydiumInputs ==
    {[id |-> "R", mint_a |-> mp[1], mint_b |-> mp[2], price |-> p,
      fee_rate |-> f, tvl |-> tvl, volume |-> v] :
        mp \in MintPairs, p \in {50000, 2000000},
        f \in {3000, 60000, 6000000},
        tvl \in {0, 1, 200000000, 2000000000},
        v \in {0, 1, 100000000, 2000000000}}

OrcaInputs ==
    {[address |-> "O", price |-> p, liquidity |-> l, fee_rate |-> f] :
        p \in {50000, 2000000}, l \in {0, 1, 50000},
        f \in {500, 3000, 60000}}

\* The last set holds responses whose pool_token_amounts has one element.
MeteoraInputs ==
    {[pool_address |-> "M", pool_token_mints |-> mp,
      pool_token_amounts |-> a, pool_tvl |-> tvl, total_fee_pct |-> f,
      trading_volume |-> v] :
        mp \in MintPairs,
        a \in {<<"1000", "100">>, <<"100", "1000">>, <<"abc", "100">>,
               <<"100", "abc">>, <<"100", "0">>, <<"0", "100">>},
        tvl \in {"2000000", "0.01", "0", "-1", "abc"},
        f \in {"0.30", "6.0", "abc"},
        v \in {0, 100000000}}
    \cup
    {[pool_address |-> "M", pool_token_mints |-> mp,
      pool_token_amounts |-> <<"100">>, pool_tvl |-> "2000000",
      total_fee_pct |-> "0.30", trading_volume |-> 100000000] :
        mp \in MintPairs}

DlmmInputs ==
    {[address |-> "D", mint_x |-> mp[1], mint_y |-> mp[2], liquidity |-> l,
      base_fee_percentage |-> f, trade_volume_24h |-> v,
      current_price |-> 50000, hide |-> h, is_blacklisted |-> b] :
        mp \in MintPairs,
        l \in {"2000000", "0.01", "0", "-1", "abc"},
        f \in {"0.30", "0.06", "6.0", "abc"},
        v \in {0, 100000000},
        h \in BOOLEAN, b \in BOOLEAN}

\* A successful response of source s that holds the one raw entry e.
SingleResponse(s, e) ==
    CASE s = "Raydium" -> [kind |-> "ok", success |-> TRUE, entries |-> <<e>>]
      [] s = "Meteora DLMM" -> [kind |-> "ok", groups |-> <<<<e>>>>]
      [] OTHER -> [kind |-> "ok", entries |-> <<e>>]

Inputs(s) ==
    CASE s = "Raydium"      -> RaydiumInputs
      [] s = "Orca"         -> OrcaInputs
      [] s = "Meteora"      -> MeteoraInputs
      [] s = "Meteora DLMM" -> DlmmInputs

\* Nothing has run yet.
Fresh ==
    /\ main_pc = "joining"
    /\ \A s \in Sources : pc[s] = "fetching"
    /\ ret = NoReturn
    /\ health = <<>>

\* process_*_pools of source s on a response of one raw entry, the aggregate
\* empty and the lock free.
ProcessOne(s) ==
    /\ Fresh
    /\ \E e \in Inputs(s) :
          /\ response' = [response EXCEPT ![s] = SingleResponse(s, e)]
          /\ IF Panics(s, e)
             THEN /\ main_pc' = "panicked"
                  /\ UNCHANGED <<results, pc>>
             ELSE /\ results' = results \o Normalize(s, e)
                  /\ pc' = [pc EXCEPT ![s] = "done"]
                  /\ UNCHANGED main_pc
    /\ UNCHANGED <<invocation, order, idx, mutex, warnings, ret, std_pools, config, health>>

\* StandardizedPool values (token_addresses and metadata are not read by
\* the scorer and are not modelled).
StandardizedPools ==
    {[address |-> "S", liquidity_usd |-> l, volume_24h |-> v,
      fee_percentage |-> f] :
        l \in {NaN, -100, 0, 1, 200000000, 2000000000},
        v \in {<<>>, <<NaN>>, <<0>>, <<1>>, <<100000000>>, <<2000000000>>},
        f \in {NaN, -1000000, 300000, 1000000, 6000000}}

\* Weight tuples summing to 1.0: the default one, and the pipeline's
\* weights and ceilings.
Configs ==
    {DefaultConfig,
     [liquidity_weight |-> 45, volume_weight |-> 45, fee_weight |-> 10,
      stability_weight |-> 0, max_expected_liquidity |-> 1000000000,
      max_expected_volume |-> 1000000000, max_expected_fee |-> 5 * Scale]}

\* calculate_health_score on one pool and one configuration.
ScorePool ==
    /\ Fresh
    /\ \E p \in StandardizedPools, cfg \in Configs :
          /\ std_pools' = <<p>>
          /\ config' = <<cfg>>
          /\ health' = <<calculate_health_score(p, cfg)>>
    /\ UNCHANGED <<invocation, order, pc, response, idx, mutex, results, warnings, main_pc, ret>>

NextNorm ==
    \/ \E s \in Sources : ProcessOne(s)
    \/ ScorePool

SpecNorm == Init /\ [][NextNorm]_vars

-----------------------------------------------------------------------------
(* The two selectors as functions of their input slice. *)

ScoreSamples == {NaN, 300000, 700000}

\* Slices of PoolAnalysis that differ in score only; pool_address is the
\* position in the slice.
SelectorInputs ==
    UNION {{[i \in 1..n |-> PoolAnalysis("Raydium", i, 0, 100, 0, <<>>, f[i])] :
              f \in [1..n -> ScoreSamples]} : n \in 0..MaxPools}

\* Slices of StandardizedPool; address is the position in the slice.
LibraryInputs ==
    UNION {{[i \in 1..n |->
               [address |-> i, liquidity_usd |-> f[i][1],
                volume_24h |-> f[i][2], fee_percentage |-> f[i][3]]] :
              f \in [1..n -> {NaN, 0, 200000000} \X {<<>>, <<100000000>>}
                                \X {300000}]} : n \in 0..MaxPools}

\* main.rs find_healthiest_pool(&pools).
SelectMain ==
    /\ Fresh
    /\ results = <<>>
    /\ \E pools \in SelectorInputs :
          /\ results' = pools
          /\ ret' = [kind |-> "selected", pool |-> find_healthiest_pool(pools)]
    /\ UNCHANGED <<invocation, order, pc, response, idx, mutex, warnings, main_pc, std_pools,
                   config, health>>

\* pool_analysis.rs find_healthiest_pool(&pools).
SelectLibrary ==
    /\ Fresh
    /\ results = <<>>
    /\ \E pools \in LibraryInputs :
          /\ std_pools' = pools
          /\ config' = <<DefaultConfig>>
          /\ health' = <<[selected |-> lib_find_healthiest_pool(pools)]>>
    /\ UNCHANGED <<invocation, order, pc, response, idx, mutex, results, warnings, main_pc, ret>>

NextSelect == SelectMain \/ SelectLibrary

SpecSelect == Init /\ [][NextSelect]_vars

-----------------------------------------------------------------------------
(* process_meteora_pools and process_meteora_dlmm_pools on a whole batch:   *)
(* one action runs the handler's loop over every raw entry of a response.   *)

BatchSources == {"Meteora", "Meteora DLMM"}

\* Raw entries without their address: well-formed ones, ones with a numeric
\* string that does not parse and, for Meteora, ones with a single amount.
MeteoraBatchEntries ==
    {[pool_token_mints |-> <<JUP_MINT, SOL_MINT>>, pool_token_amounts |-> a,
      pool_tvl |-> tvl, total_fee_pct |-> "0.30",
      trading_volume |-> 100000000] :
        a \in {<<"1000", "100">>, <<"abc", "100">>, <<"100">>},
        tvl \in {"2000000", "abc"}}

DlmmBatchEntries ==
    {[mint_x |-> JUP_MINT, mint_y |-> SOL_MINT, liquidity |-> l,
      base_fee_percentage |-> "0.30", trade_volume_24h |-> 100000000,
      current_price |-> 50000, hide |-> h, is_blacklisted |-> b] :
        l \in {"2000000", "0", "abc"}, h \in BOOLEAN, b \in BOOLEAN}

\* Raw entry e of source s at position i of its batch; the address is the
\* position.
WithAddress(s, e, i) ==
    IF s = "Meteora" THEN [pool_address |-> i] @@ e ELSE [address |-> i] @@ e

\* The batches of 1..MaxBatch raw entries drawn from S.
BatchesOf(s, S) ==
    UNION {{[i \in 1..n |-> WithAddress(s, f[i], i)] : f \in [1..n -> S]} :
              n \in 1..MaxBatch}

\* The responses that carry such a batch; a Meteora DLMM response carries it
\* in one group or cut in two.
BatchResponses(s) ==
    IF s = "Meteora"
    THEN {[kind |-> "ok", entries |-> es] :
             es \in BatchesOf(s, MeteoraBatchEntries)}
    ELSE UNION {{[kind |-> "ok", groups |-> <<es>>]} \cup
                {[kind |-> "ok",
                  groups |-> <<SubSeq(es, 1, k), SubSeq(es, k + 1, Len(es))>>] :
                     k \in 0..Len(es)} :
                   es \in BatchesOf(s, DlmmBatchEntries)}

\* The `for` loop over raw entries es: the records pushed, and whether an
\* iteration panicked (the records pushed before it stay pushed).
RECURSIVE ProcessEntries(_, _)
ProcessEntries(s, es) ==
    IF es = <<>> THEN [records |-> <<>>, panicked |-> FALSE]
    ELSE IF Panics(s, Head(es)) THEN [records |-> <<>>, panicked |-> TRUE]
    ELSE LET rest == ProcessEntries(s, Tail(es))
         IN  [records |-> Normalize(s, Head(es)) \o rest.records,
              panicked |-> rest.panicked]

\* process_*_pools of source s on one response, the aggregate empty and the
\* lock free: early return, or lock, loop and unlock.
ProcessBatch(s) ==
    /\ Fresh
    /\ results = <<>>
    /\ \E r \in BatchResponses(s) :
          /\ response' = [response EXCEPT ![s] = r]
          /\ LET out == IF ReturnsEarly(s, r)
                        THEN [records |-> <<>>, panicked |-> FALSE]
                        ELSE ProcessEntries(s, Entries(r))
             IN  /\ results' = results \o out.records
                 /\ IF out.panicked
                    THEN main_pc' = "panicked" /\ UNCHANGED pc
                    ELSE pc' = [pc EXCEPT ![s] = "done"] /\ UNCHANGED main_pc
    /\ UNCHANGED <<invocation, order, idx, mutex, warnings, ret, std_pools, config, health>>

NextBatch == \E s \in BatchSources : ProcessBatch(s)

SpecBatch == Init /\ [][NextBatch]_vars

-----------------------------------------------------------------------------
(* What the properties below speak of. *)

\* The source's call resolved with an error or by its timeout.
Failed(s) == response[s].kind \in {"error", "timeout"}

\* The records of the aggregate that source s appended, in order.
ContributedBy(s) == SelectSeq(results, LAMBDA r : r.amm = s)

\* The raw entries source s was answered with.
RawEntries(s) ==
    IF response[s].kind = "ok" THEN Entries(response[s]) ELSE <<>>

\* The raw entry a record of the aggregate was made from.
RawOf(r) ==
    LET es == RawEntries(r.amm)
    IN  es[CHOOSE i \in 1..Len(es) : EntryId(r.amm, es[i]) = r.pool_address]

\* The records of the aggregate made from raw entry e of source s.
RecordsOf(s, e) ==
    SelectSeq(results,
              LAMBDA r : r.amm = s /\ r.pool_address = EntryId(s, e))

\* Source s is the only one that contributed, and every other one failed.
OnlySurvivor(s) ==
    /\ response[s].kind = "ok"
    /\ ContributedBy(s) # <<>>
    /\ \A o \in Sources \ {s} : Failed(o)

-----------------------------------------------------------------------------
\* C1: when exactly one source resolves successfully with at least one
\* surviving record and every other source times out or errors, the
\* invocation is not stuck before it returns, and what it returns is Ok with
\* a record of the aggregate whose source is the surviving one, never an
\* error.
C1_SoleSurvivorIsReturned ==
    \A s \in Sources :
        (OnlySurvivor(s) /\ \A o \in Sources : pc[o] = "done") =>
            /\ main_pc \in {"joining", "logged", "returned"}
            /\ main_pc = "joining" => ENABLED LogWarnings
            /\ main_pc = "logged" => ENABLED Analyze
            /\ main_pc = "returned" =>
                  /\ ret.kind = "Ok"
                  /\ Len(ret.pool) = 1
                  /\ ret.pool[1].amm = s
                  /\ \E i \in 1..Len(results) : results[i] = ret.pool[1]

\* C1's case: Meteora alone contributed, a sibling timed out, another
\* errored, and the invocation returned a Meteora record.
C1_Witness ==
    /\ main_pc = "returned"
    /\ OnlySurvivor("Meteora")
    /\ response["Raydium"].kind = "timeout"
    /\ response["Orca"].kind = "error"
    /\ ret.kind = "Ok"
    /\ ret.pool[1].amm = "Meteora"

\* C2: once the invocation has returned, it returned the error exactly when
\* every source failed, timed out or contributed no record; the error comes
\* with no record, and only after all four sources resolved with the
\* aggregate empty.
C2_ErrorIffAggregateEmpty ==
    main_pc = "returned" =>
        /\ (\A s \in Sources : Failed(s) \/ ContributedBy(s) = <<>>)
              <=> (ret.kind = "Err")
        /\ ret.kind \in {"Ok", "Err"}
        /\ ret.kind = "Err" =>
              /\ ret.pool = <<>>
              /\ results = <<>>
              /\ \A s \in Sources : pc[s] = "done"

\* C2's case: one source timed out, one answered with entries that were all
\* dropped, one answered with a non-success status, and the error came back.
C2_Witness ==
    /\ main_pc = "returned"
    /\ ret.kind = "Err"
    /\ response["Orca"].kind = "timeout"
    /\ response["Meteora"].kind = "ok"
    /\ RawEntries("Meteora") # <<>>
    /\ response["Raydium"].kind = "ok"
    /\ ~response["Raydium"].success
    /\ RawEntries("Raydium") # <<>>

\* C3 (as claimed): no record of the aggregate has liquidity_usd <= 0.
C3_NoNonPositiveLiquidity ==
    \A i \in 1..Len(results) : results[i].liquidity_usd > 0

\* A numeric string field of raw entry e that normalization consumes does
\* not parse.
HasUnparseableField(s, e) ==
    CASE s = "Meteora" ->
           \/ \E i \in 1..Len(e.pool_token_amounts) :
                 i <= 2 /\ ParseTokens(e.pool_token_amounts[i]) = <<>>
           \/ ParseCents(e.pool_tvl) = <<>>
           \/ ParseRatio(e.total_fee_pct) = <<>>
      [] s = "Meteora DLMM" ->
           \/ ParseCents(e.liquidity) = <<>>
           \/ ParseRatio(e.base_fee_percentage) = <<>>
      [] OTHER -> FALSE

\* C4 (as claimed): a raw entry with an unparseable numeric string field
\* yields no record, and its normalization does not panic.
C4_UnparseableEntryYieldsNothing ==
    \A s \in Sources :
        \A i \in 1..Len(RawEntries(s)) :
            HasUnparseableField(s, RawEntries(s)[i]) =>
                /\ RecordsOf(s, RawEntries(s)[i]) = <<>>
                /\ main_pc # "panicked"

\* C5 (as claimed): every score of the aggregate and every health score of
\* calculate_health_score lies in [0, 1].
C5_ScoreInUnitInterval ==
    /\ \A i \in 1..Len(results) :
          results[i].score >= 0 /\ results[i].score <= Scale
    /\ \A i \in 1..Len(health) :
          "health_score" \in DOMAIN health[i] =>
              health[i].health_score >= 0 /\ health[i].health_score <= Scale

\* The fee component that entered the score of the record made from raw
\* entry e of source s.
FeeComponent(s, e) ==
    CASE s = "Raydium"      -> RaydiumNormalizedFee(e)
      [] s = "Orca"         -> OrcaNormalizedFee(e)
      [] s = "Meteora"      -> MeteoraNormalizedFee(e)
      [] s = "Meteora DLMM" -> DlmmNormalizedFee(e)

\* The score of record r were its fee component 0.
ScoreWithoutFee(r) ==
    IF r.amm = "Orca" THEN Score2(LogScore(r.liquidity_usd), 0)
    ELSE Score3(LogScore(r.volume_24h[1]), LogScore(r.liquidity_usd), 0)

\* C6 (as claimed): a record whose stored fee_percentage is at or above 5.0
\* was scored with a fee component of exactly 0, its score being what its
\* liquidity and volume components contribute.
C6_FeeAtCeilingScoresZero ==
    \A i \in 1..Len(results) :
        results[i].fee_percentage >= 5 * Scale =>
            /\ FeeComponent(results[i].amm, RawOf(results[i])) = 0
            /\ results[i].score = ScoreWithoutFee(results[i])

\* SOL is one of the two tokens of raw entry e of a price-reporting source.
SolPosition(s, e) ==
    CASE s = "Raydium" ->
           IF e.mint_a = SOL_MINT THEN 1
           ELSE IF e.mint_b = SOL_MINT THEN 2 ELSE 0
      [] s = "Meteora DLMM" ->
           IF e.mint_x = SOL_MINT THEN 1
           ELSE IF e.mint_y = SOL_MINT THEN 2 ELSE 0
      [] OTHER -> 0

NativePrice(s, e) == IF s = "Raydium" THEN e.price ELSE e.current_price

\* C7: a Raydium or Meteora DLMM record made from a pool that holds SOL as
\* its first or as its second token has price_usd = p * 161, p being the
\* price the provider reported; so both positions give the same price_usd
\* for the same p.
C7_NativePriceTimesReference ==
    \A i \in 1..Len(results) :
        LET r == results[i]
        IN  (r.amm \in {"Raydium", "Meteora DLMM"}
                /\ SolPosition(r.amm, RawOf(r)) \in {1, 2}) =>
                r.price_usd = NativePrice(r.amm, RawOf(r)) * 161

\* C7's case: a Raydium pool with SOL as its second token and price 0.05 was
\* normalized to price_usd 8.05.
C7_Witness ==
    /\ Len(results) = 1
    /\ results[1].amm = "Raydium"
    /\ SolPosition("Raydium", RawOf(results[1])) = 2
    /\ RawOf(results[1]).price = 50000
    /\ results[1].price_usd = 8050000

\* The provider reports a fee of 0.30% for raw entry e.
ReportsFeeOf030(s, e) ==
    CASE s = "Raydium"      -> e.fee_rate = 3000
      [] s = "Orca"         -> e.fee_rate = 3000
      [] s = "Meteora"      -> e.total_fee_pct = "0.30"
      [] s = "Meteora DLMM" -> e.base_fee_percentage = "0.30"

\* C8 (as claimed): a pool whose fee is 0.30% has fee_percentage 0.30,
\* whichever provider reported it.
C8_FeeOnPercentScale ==
    \A i \in 1..Len(results) :
        ReportsFeeOf030(results[i].amm, RawOf(results[i])) =>
            results[i].fee_percentage = 300000

\* C9 (as claimed): neither selector returns a NaN-scored record when its
\* input holds a record whose score is not NaN.
C9_NaNNeverSelected ==
    /\ (ret.kind = "selected"
          /\ \E i \in 1..Len(results) : ~IsNaN(results[i].score)) =>
            ~IsNaN(ret.pool[1].score)
    /\ \A k \in 1..Len(health) :
          ("selected" \in DOMAIN health[k]
             /\ \E i \in 1..Len(std_pools) :
                   ~IsNaN(calculate_health_score(std_pools[i],
                                                 DefaultConfig).health_score))
            => ~IsNaN(health[k].selected[1].health_score)

\* The positions of a sequence of scores that hold its greatest score (NaN
\* holds none).
MaxPositions(scores) ==
    {i \in 1..Len(scores) :
        /\ ~IsNaN(scores[i])
        /\ \A j \in 1..Len(scores) : IsNaN(scores[j]) \/ scores[j] <= scores[i]}

MainScores == [i \in 1..Len(results) |-> results[i].score]

LibraryScores ==
    [i \in 1..Len(std_pools) |->
        calculate_health_score(std_pools[i], DefaultConfig).health_score]

NoNaN(scores) == \A i \in 1..Len(scores) : ~IsNaN(scores[i])

\* C10 (as claimed): when several records share the maximum score, each
\* selector returns the one that comes first in its input.
C10_TiesKeepFirst ==
    /\ (ret.kind = "selected" /\ Cardinality(MaxPositions(MainScores)) >= 2) =>
          \A i \in MaxPositions(MainScores) : ret.pool[1].pool_address <= i
    /\ \A k \in 1..Len(health) :
          ("selected" \in DOMAIN health[k]
             /\ Cardinality(MaxPositions(LibraryScores)) >= 2) =>
            \A i \in MaxPositions(LibraryScores) :
                health[k].selected[1].pool.address <= i

\* C10 (amended): when several records of an input without NaN scores share
\* the maximum score, each selector returns the one that comes last in its
\* input.
C10_TiesKeepLast ==
    /\ (ret.kind = "selected" /\ NoNaN(MainScores)
          /\ Cardinality(MaxPositions(MainScores)) >= 2) =>
          /\ ret.pool[1].pool_address \in MaxPositions(MainScores)
          /\ \A i \in MaxPositions(MainScores) : ret.pool[1].pool_address >= i
    /\ \A k \in 1..Len(health) :
          ("selected" \in DOMAIN health[k] /\ NoNaN(LibraryScores)
             /\ Cardinality(MaxPositions(LibraryScores)) >= 2) =>
            /\ health[k].selected[1].pool.address \in MaxPositions(LibraryScores)
            /\ \A i \in MaxPositions(LibraryScores) :
                  health[k].selected[1].pool.address >= i

\* C10's case: the first and the last of three records share the maximum
\* score, and the selector of main.rs returned the last.
C10_Witness ==
    /\ ret.kind = "selected"
    /\ Len(results) = 3
    /\ NoNaN(MainScores)
    /\ MaxPositions(MainScores) = {1, 3}
    /\ ret.pool[1].pool_address = 3

\* C11: on a non-empty input without NaN scores each selector returns exactly
\* one record, which is an element of its input and whose score is greater
\* than or equal to the score of every element; and a selector returns
\* nothing exactly when its input is empty.
C11_SelectorReturnsMaximum ==
    /\ ret.kind = "selected" =>
          /\ (ret.pool = <<>>) <=> (results = <<>>)
          /\ (results # <<>> /\ NoNaN(MainScores)) =>
                /\ Len(ret.pool) = 1
                /\ \E i \in 1..Len(results) : results[i] = ret.pool[1]
                /\ \A i \in 1..Len(results) :
                      ret.pool[1].score >= results[i].score
    /\ \A k \in 1..Len(health) :
          "selected" \in DOMAIN health[k] =>
            LET sel == health[k].selected
            IN  /\ (sel = <<>>) <=> (std_pools = <<>>)
                /\ (std_pools # <<>> /\ NoNaN(LibraryScores)) =>
                      /\ Len(sel) = 1
                      /\ \E i \in 1..Len(std_pools) :
                            std_pools[i] = sel[1].pool
                      /\ \A i \in 1..Len(std_pools) :
                            sel[1].health_score >= LibraryScores[i]

\* C11's case: the selector of main.rs was handed three records without NaN
\* scores, the greatest score in the middle, and returned the middle one.
C11_Witness ==
    /\ ret.kind = "selected"
    /\ Len(results) = 3
    /\ NoNaN(MainScores)
    /\ MaxPositions(MainScores) = {2}
    /\ ret.pool[1].pool_address = 2

\* The scenario's two records: equal in fee, one with liquidity $2M and 24h
\* volume $1M, the other with liquidity $8M and 24h volume 0 or missing.
IsScenarioPair(recs) ==
    /\ Len(recs) = 2
    /\ recs[1].fee_percentage = recs[2].fee_percentage
    /\ \E i, j \in 1..2 :
          /\ recs[i].liquidity_usd = 200000000
          /\ recs[i].volume_24h = <<100000000>>
          /\ recs[j].liquidity_usd = 800000000
          /\ recs[j].volume_24h \in {<<>>, <<0>>}

\* The invocation returned; source b yielded the scenario's two records, a
\* sibling timed out, another returned an empty batch, and no sibling did
\* anything else than fail or return an empty batch.
Scenario(b) ==
    /\ main_pc = "returned"
    /\ response[b].kind = "ok"
    /\ IsScenarioPair(ContributedBy(b))
    /\ \E a \in Sources \ {b} : response[a].kind = "timeout"
    /\ \E c \in Sources \ {b} :
          response[c].kind = "ok" /\ RawEntries(c) = <<>>
    /\ \A o \in Sources \ {b} :
          Failed(o) \/ (response[o].kind = "ok" /\ RawEntries(o) = <<>>)

\* C12 (as claimed): in the scenario the aggregate has exactly 2 records, no
\* error is raised, the $8M-liquidity record has the higher score and is the
\* record returned.
C12_ScenarioSelects8M ==
    \A b \in Sources :
        Scenario(b) =>
            /\ Len(results) = 2
            /\ ret.kind = "Ok"
            /\ ret.pool[1].liquidity_usd = 800000000
            /\ \A i \in 1..2 : ret.pool[1].score >= results[i].score

\* C12 (amended): in the scenario the aggregate has exactly 2 records, no
\* error is raised, and the $2M-liquidity record, whose 24h volume is $1M,
\* has the strictly higher score and is the record returned, in either
\* order of the two.
C12_ScenarioSelects2M ==
    \A b \in Sources :
        Scenario(b) =>
            /\ Len(results) = 2
            /\ ret.kind = "Ok"
            /\ Len(ret.pool) = 1
            /\ ret.pool[1].liquidity_usd = 200000000
            /\ \A i \in 1..2 :
                  results[i].liquidity_usd = 800000000 =>
                      ret.pool[1].score > results[i].score

\* C12's case: Raydium answered with the $8M pool after the $2M pool, Orca
\* timed out, Meteora returned an empty batch, and the invocation returned.
C12_Witness ==
    /\ Scenario("Raydium")
    /\ response["Orca"].kind = "timeout"
    /\ response["Meteora"].kind = "ok"
    /\ results[2].liquidity_usd = 800000000
    /\ ret.kind = "Ok"

\* The records the raw entries es of source s are normalized to, in order
\* (none of them panics).
RECURSIVE NormalizeAll(_, _)
NormalizeAll(s, es) ==
    IF es = <<>> THEN <<>>
    ELSE Normalize(s, Head(es)) \o NormalizeAll(s, Tail(es))

\* The surviving records of a source that was answered.
Surviving(s) ==
    IF ReturnsEarly(s, response[s]) THEN <<>>
    ELSE NormalizeAll(s, RawEntries(s))

\* Source s holds the lock and its loop has an iteration to run or the guard
\* to drop (LoopStep, Unlock).
RunsUnderLock(s) ==
    /\ pc[s] = "locked"
    /\ mutex = s
    /\ idx[s] \in 1..(Len(Entries(response[s])) + 1)

\* Source s, not yet resolved, has its call in flight (which the timeout
\* bounds), returns early, can take the free lock, runs under the lock, or
\* waits for the lock that a sibling which is itself running holds.
CanProceed(s) ==
    \/ pc[s] = "fetching"
    \/ pc[s] = "fetched" /\ ReturnsEarly(s, response[s])
    \/ pc[s] = "fetched" /\ mutex = Free
    \/ RunsUnderLock(s)
    \/ /\ pc[s] = "fetched"
       /\ mutex \in Sources \ {s}
       /\ RunsUnderLock(mutex)

\* C13: whichever sources failed or timed out, (a) while the join is under
\* way every unresolved source can still proceed to its own resolution and no
\* failed source holds the lock; (b) once all four resolved the invocation
\* goes on to return; (c) the aggregate then holds, for every source that
\* was answered, exactly its surviving records; and (d) an error is returned
\* only for an empty aggregate, never for a source's failure.  (A panic of
\* calc_meteora_price is neither a failure nor a timeout of a fetch; it
\* unwinds the join and leaves all four cases.)
C13_FailureDoesNotStopSiblings ==
    /\ main_pc = "joining" =>
          /\ \A s \in Sources : pc[s] # "done" => CanProceed(s)
          /\ \A s \in Sources : Failed(s) => mutex # s /\ pc[s] = "done"
          /\ (\A s \in Sources : pc[s] = "done") => ENABLED LogWarnings
    /\ main_pc = "logged" => ENABLED Analyze
    /\ main_pc \in {"logged", "returned"} =>
          /\ \A s \in Sources :
                response[s].kind = "ok" => ContributedBy(s) = Surviving(s)
          /\ \A s \in Sources : Failed(s) => ContributedBy(s) = <<>>
    /\ main_pc = "returned" =>
          /\ ret.kind \in {"Ok", "Err"}
          /\ ret.kind = "Err" => results = <<>>

\* C13's case: Raydium errored, Orca timed out, and the invocation returned
\* with the records of both Meteora and Meteora DLMM in the aggregate.
C13_Witness ==
    /\ main_pc = "returned"
    /\ response["Raydium"].kind = "error"
    /\ response["Orca"].kind = "timeout"
    /\ ContributedBy("Meteora") # <<>>
    /\ ContributedBy("Meteora DLMM") # <<>>
    /\ Len(results) =
          Len(Surviving("Meteora")) + Len(Surviving("Meteora DLMM"))
    /\ ret.kind = "Ok"

\* The provider of source s answered with a non-success status in its body.
ReportsNonSuccess(s) ==
    /\ s = "Raydium"
    /\ response[s].kind = "ok"
    /\ ~response[s].success

\* C14 (as claimed): once the warnings are written, every source that failed,
\* timed out or was answered with a non-success status has exactly one
\* warning that names it, and no record in the aggregate.
C14_OneWarningPerFailedSource ==
    main_pc \in {"logged", "returned"} =>
        \A s \in Sources :
            (Failed(s) \/ ReportsNonSuccess(s)) =>
                /\ Cardinality({w \in warnings : w.source = s}) = 1
                /\ ContributedBy(s) = <<>>

\* The 24h volume of record r is missing or zero.
VolumeAbsentOrZero(r) == r.volume_24h \in {<<>>, <<0>>}

\* The records any source makes from any one of its raw entries.
AnyRecords ==
    UNION {{Normalize(s, e)[1] : e \in {x \in Inputs(s) :
                                          /\ ~Panics(s, x)
                                          /\ Normalize(s, x) # <<>>}} :
              s \in Sources}

\* C15 (as claimed): a record of the aggregate has the score of every record,
\* of whichever source, that has the same liquidity_usd, the same
\* fee_percentage and, like it, a missing or zero 24h volume.
C15_ScoreIgnoresSource ==
    \A i \in 1..Len(results) :
        \A q \in AnyRecords :
            (/\ q.liquidity_usd = results[i].liquidity_usd
             /\ q.fee_percentage = results[i].fee_percentage
             /\ VolumeAbsentOrZero(q)
             /\ VolumeAbsentOrZero(results[i])) =>
                q.score = results[i].score

\* C16: after process_meteora_dlmm_pools ran over a response, no pair marked
\* hide or is_blacklisted has a record in the aggregate, whatever its
\* liquidity, and every pair that is neither, and whose liquidity parses to
\* a positive number, has exactly one, whichever pairs share its group.
C16_HiddenOrBlacklistedDropped ==
    pc["Meteora DLMM"] = "done" =>
        \A i \in 1..Len(RawEntries("Meteora DLMM")) :
            LET pair == RawEntries("Meteora DLMM")[i]
                liq  == ParseCents(pair.liquidity)
            IN  /\ (pair.hide \/ pair.is_blacklisted) =>
                      RecordsOf("Meteora DLMM", pair) = <<>>
                /\ (~pair.hide /\ ~pair.is_blacklisted
                       /\ liq # <<>> /\ liq[1] > 0) =>
                      Len(RecordsOf("Meteora DLMM", pair)) = 1

\* C16's case: one group holds a blacklisted pair with liquidity $2M and,
\* after it, a pair that is neither hidden nor blacklisted; the aggregate
\* holds the record of the second only.
C16_Witness ==
    /\ pc["Meteora DLMM"] = "done"
    /\ response["Meteora DLMM"].kind = "ok"
    /\ Len(response["Meteora DLMM"].groups) = 1
    /\ Len(RawEntries("Meteora DLMM")) = 2
    /\ RawEntries("Meteora DLMM")[1].is_blacklisted
    /\ ~RawEntries("Meteora DLMM")[1].hide
    /\ RawEntries("Meteora DLMM")[1].liquidity = "2000000"
    /\ Len(results) = 1
    /\ results[1].pool_address = 2

\* Raw entry e of source s is malformed: a numeric string does not parse, or
\* a Meteora pool lists fewer than its two token amounts.
Malformed(s, e) ==
    \/ HasUnparseableField(s, e)
    \/ s = "Meteora" /\ Len(e.pool_token_amounts) < 2

\* Raw entry e of source s is well-formed and passes the source's filters.
WellFormed(s, e) ==
    /\ ~Malformed(s, e)
    /\ s = "Meteora" => calc_meteora_price(e) # <<>>
    /\ s = "Meteora DLMM" =>
          ~e.hide /\ ~e.is_blacklisted /\ ParseCents(e.liquidity)[1] > 0

\* C17 (as claimed): when a source was handed a batch, its processing is not
\* aborted, and every well-formed entry of the batch has its record in the
\* aggregate, whichever malformed entries come before or after it.
C17_MalformedIsRecordLocal ==
    \A s \in BatchSources :
        response[s].kind = "ok" =>
            /\ main_pc # "panicked"
            /\ pc[s] = "done"
            /\ \A i \in 1..Len(RawEntries(s)) :
                  WellFormed(s, RawEntries(s)[i]) =>
                      Len(RecordsOf(s, RawEntries(s)[i])) = 1

\* The position (1 or 2) of SOL among the two tokens of Meteora pool e, 0
\* when neither is SOL.
MeteoraSolPosition(e) ==
    IF e.pool_token_mints[1] = SOL_MINT THEN 1
    ELSE IF e.pool_token_mints[2] = SOL_MINT THEN 2 ELSE 0

\* The reserve of token k of Meteora pool e.
Reserve(e, k) == ParseTokens(e.pool_token_amounts[k])[1]

\* Both reserves of the pool a Meteora record was made from are positive.
HasReserves(r) ==
    /\ r.amm = "Meteora"
    /\ Reserve(RawOf(r), 1) > 0
    /\ Reserve(RawOf(r), 2) > 0

\* C18 (as claimed): a Meteora record made from a pool with SOL as token k
\* has price_usd = (reserve of the other token / reserve of SOL) * 161.
C18_NonNativeOverNative ==
    \A i \in 1..Len(results) :
        LET r == results[i]
        IN  (HasReserves(r) /\ MeteoraSolPosition(RawOf(r)) \in {1, 2}) =>
                LET k == MeteoraSolPosition(RawOf(r))
                IN  r.price_usd =
                        ((Reserve(RawOf(r), 3 - k) * Scale)
                            \div Reserve(RawOf(r), k)) * 161

\* C18 (amended): a Meteora record made from a pool with SOL as token k, in
\* either position, has price_usd = (reserve of SOL / reserve of the other
\* token) * 161.
C18_NativeOverNonNative ==
    \A i \in 1..Len(results) :
        LET r == results[i]
        IN  (HasReserves(r) /\ MeteoraSolPosition(RawOf(r)) \in {1, 2}) =>
                LET k == MeteoraSolPosition(RawOf(r))
                IN  r.price_usd =
                        ((Reserve(RawOf(r), k) * Scale)
                            \div Reserve(RawOf(r), 3 - k)) * 161

\* C18's case: a pool with SOL as its second token, 1000 of the other token
\* and 100 SOL, was normalized to price_usd 0.1 * 161.
C18_Witness ==
    /\ Len(results) = 1
    /\ HasReserves(results[1])
    /\ MeteoraSolPosition(RawOf(results[1])) = 2
    /\ Reserve(RawOf(results[1]), 1) = 1000
    /\ Reserve(RawOf(results[1]), 2) = 100
    /\ results[1].price_usd = 16100000

\* C19 (as claimed): a Meteora record made from a pool of which neither
\* token is SOL has price_usd = reserve of token 1 / reserve of token 0, not
\* multiplied by 161.
C19_NonSolRatioUnscaled ==
    \A i \in 1..Len(results) :
        LET r == results[i]
        IN  (HasReserves(r) /\ MeteoraSolPosition(RawOf(r)) = 0) =>
                r.price_usd =
                    (Reserve(RawOf(r), 2) * Scale) \div Reserve(RawOf(r), 1)

\* The records source s has appended so far in this call, from what this
\* call's fetch of s resolved to and from how far its loop is.
ProducedSoFar(s) ==
    CASE pc[s] \in {"fetching", "fetched"} -> <<>>
      [] pc[s] = "locked" ->
           NormalizeAll(s, SubSeq(Entries(response[s]), 1, idx[s] - 1))
      [] pc[s] = "done" ->
           IF response[s].kind = "ok" THEN Surviving(s) ELSE <<>>

\* C20: in every call of a sequence of calls, the aggregate holds records of
\* the four sources only and, of each source, exactly the records made so far
\* from what this call's fetch of that source resolved to: it is empty when
\* the call starts, and what the call returns was selected from it.
C20_AggregateOfThisInvocationOnly ==
    /\ \A i \in 1..Len(results) : results[i].amm \in Sources
    /\ \A s \in Sources : ContributedBy(s) = ProducedSoFar(s)
    /\ (\A s \in Sources : pc[s] = "fetching") => results = <<>>
    /\ (main_pc = "returned" /\ ret.kind = "Ok") =>
          \E i \in 1..Len(results) : results[i] = ret.pool[1]

\* C20's case: the second call returned a record of Meteora, the only
\* source that contributed to it, Raydium having timed out in this call.
C20_Witness ==
    /\ invocation = 2
    /\ main_pc = "returned"
    /\ ret.kind = "Ok"
    /\ response["Raydium"].kind = "timeout"
    /\ response["Meteora"].kind = "ok"
    /\ results = Surviving("Meteora")
    /\ results # <<>>

\* The join is over: get_pools_data is at, or past, its read of the aggregate.
JoinIsOver == main_pc \in {"logged", "returned"}

\* C21: whenever the join is over, all four tasks have resolved and none
\* holds the lock; from then on no step changes the aggregate; and what the
\* call returns was selected from that final aggregate (an error when it is
\* empty).
C21_ReadAfterAllResolved ==
    /\ [](JoinIsOver =>
            /\ \A s \in Sources :
                  /\ pc[s] = "done"
                  /\ response[s].kind \in {"ok", "error", "timeout"}
                  /\ ContributedBy(s) = ProducedSoFar(s)
            /\ mutex = Free)
    /\ [](main_pc = "returned" => ret = token_price_analysis(results))
    /\ [][JoinIsOver => results' = results]_vars

\* C21's case: the call returned after Raydium and Meteora DLMM, both
\* answered, appended their records, and Orca timed out.
C21_Witness ==
    /\ main_pc = "returned"
    /\ ContributedBy("Raydium") # <<>>
    /\ ContributedBy("Meteora DLMM") # <<>>
    /\ response["Orca"].kind = "timeout"
    /\ ret.kind = "Ok"

\* The sources whose processing step holds write access to the aggregate.
Writers == {s \in Sources : pc[s] = "locked"}

\* How many records survive of what source s was answered with.
SurvivingCount(s) ==
    IF response[s].kind = "ok" THEN Len(Surviving(s)) ELSE 0

\* C22: at every moment at most one source is inside its locked loop, and
\* it is the owner of the lock; every change of the aggregate is an append
\* made by that owner, which keeps all records already there; and once the
\* join is over the aggregate has as many records as survive of the answered
\* sources' responses together.
C22_AppendsAreSerialized ==
    /\ [](/\ Cardinality(Writers) <= 1
          /\ \A s \in Sources : (pc[s] = "locked") <=> (mutex = s))
    /\ [][results' # results =>
            /\ mutex \in Sources
            /\ pc[mutex] = "locked"
            /\ mutex' = mutex
            /\ Len(results') > Len(results)
            /\ SubSeq(results', 1, Len(results)) = results
            /\ \A i \in (Len(results) + 1)..Len(results') :
                  results'[i].amm = mutex]_vars
    /\ [](JoinIsOver =>
            Len(results) = SurvivingCount("Raydium") + SurvivingCount("Orca")
                             + SurvivingCount("Meteora")
                             + SurvivingCount("Meteora DLMM"))

\* C22's case: Raydium, inside its loop, has appended a record and holds the
\* lock while Meteora DLMM, already answered with pairs, waits for it.
C22_Witness ==
    /\ pc["Raydium"] = "locked"
    /\ mutex = "Raydium"
    /\ ContributedBy("Raydium") # <<>>
    /\ pc["Meteora DLMM"] = "fetched"
    /\ ~ReturnsEarly("Meteora DLMM", response["Meteora DLMM"])


\* The place of source s in a history, 0 when it is not in it.
PlaceIn(h, s) == IF \E i \in 1..Len(h) : h[i] = s THEN CHOOSE i \in 1..Len(h) : h[i] = s ELSE 0

\* s comes before t in history h (both are in it).
Before(h, s, t) == PlaceIn(h, s) > 0 /\ PlaceIn(h, t) > 0 /\ PlaceIn(h, s) < PlaceIn(h, t)

\* Every record of source s stands before every record of source t.
AllPrecede(s, t) ==
    \A i, j \in 1..Len(results) :
        (results[i].amm = s /\ results[j].amm = t) => i < j

QueriesIssued(s) == Cardinality({i \in 1..Len(order.launched) : order.launched[i] = s})

\* Source s has resolved with an error or a timeout.
FailedFetch(s) == response[s].kind \in {"error", "timeout"}

\* C24: at any moment of an invocation each source has had exactly one query
\* issued; within the invocation no step issues a query, a source that has
\* left its fetch never fetches again, and a source resolved with an error or
\* a timeout is finished and keeps that resolution.
C24_QueriedAtMostOnce ==
    /\ [](\A s \in Sources : QueriesIssued(s) = 1)
    /\ [][invocation' = invocation =>
            /\ order'.launched = order.launched
            /\ \A s \in Sources :
                  /\ pc[s] # "fetching" => pc'[s] # "fetching"
                  /\ FailedFetch(s) =>
                        /\ pc[s] = "done" /\ pc'[s] = "done"
                        /\ response'[s] = response[s]]_vars

\* C24's case: in the second invocation Raydium has resolved with an error
\* and Orca with a timeout, the other two have contributed, and the call has
\* returned.
C24_Witness ==
    /\ invocation = 2
    /\ main_pc = "returned"
    /\ response["Raydium"].kind = "error"
    /\ response["Orca"].kind = "timeout"
    /\ ContributedBy("Meteora") # <<>>
    /\ ContributedBy("Meteora DLMM") # <<>>


\* A handler has panicked inside join!: the call unwinds and returns nothing.
Panicked == main_pc = "panicked"

\* The call has returned a record or the empty error.
Returned == main_pc = "returned" /\ ret.kind \in {"Ok", "Err"}

\* C25: under fair scheduling every invocation eventually returns a record or
\* the empty error: all four tasks come to their end, so none waits for the
\* lock for ever, and the final read of the aggregate is reached.
C25_EventuallyReturns ==
    /\ <>(\A s \in Sources : pc[s] = "done")
    /\ <>Returned

\* What the code does guarantee: the invocation returns or a handler panics.
C25_ReturnsUnlessPanicked == <>(Panicked \/ Returned)

\* C25's failing case: Meteora's handler has panicked with the lock held
\* while another source, its fetch resolved with pools, waits for the lock.
C25_Witness ==
    /\ Panicked
    /\ mutex = "Meteora"
    /\ \E s \in Sources \ {"Meteora"} : pc[s] = "fetched" /\ ~ReturnsEarly(s, response[s])


\* The records of one source stand next to each other in the aggregate.
Contiguous ==
    \A i, k \in 1..Len(results) :
        (i < k /\ results[i].amm = results[k].amm) =>
            \A j \in i..k : results[j].amm = results[i].amm

\* The place, in the response of its source, of the raw entry record r was
\* made from.
PlaceInResponse(r) ==
    LET es == RawEntries(r.amm)
    IN  CHOOSE i \in 1..Len(es) : EntryId(r.amm, es[i]) = r.pool_address

\* C26: a source inside its loop owns the lock, and once it has appended a
\* record the last record of the aggregate is its own; the records of one
\* source are contiguous and stand in the order of the entries of its
\* response; and when the call has returned each answered source's records
\* are exactly the surviving records of its response, in that order.
C26_BatchContiguousInResponseOrder ==
    /\ \A s \in Sources :
          pc[s] = "locked" =>
             /\ mutex = s
             /\ ContributedBy(s) # <<>> => results[Len(results)].amm = s
    /\ Contiguous
    /\ \A i, j \in 1..Len(results) :
          (i < j /\ results[i].amm = results[j].amm) =>
              PlaceInResponse(results[i]) < PlaceInResponse(results[j])
    /\ main_pc = "returned" =>
          \A s \in Sources :
              response[s].kind = "ok" => ContributedBy(s) = Surviving(s)

\* C26's case: the call has returned an aggregate that starts with a record
\* of Meteora DLMM, goes on with the two records of Raydium and ends with a
\* record of Meteora.
C26_Witness ==
    /\ main_pc = "returned"
    /\ Len(ContributedBy("Raydium")) >= 2
    /\ ContributedBy("Meteora") # <<>>
    /\ results[1].amm = "Meteora DLMM"
    /\ results[Len(results)].amm = "Meteora"

=============================================================================
